---------------------------- MODULE Spec2Model ----------------------------
(***************************************************************************)
(* A model of validateForm (src/src/11-jugaad-form-validator.js).           *)
(*                                                                         *)
(* JavaScript values are records tagged by the field t.  A string is a     *)
(* sequence of code units, each written as a one-character TLA+ string     *)
(* ("NBSP" and "BOM" stand for the code units U+00A0 and U+FEFF).  A        *)
(* finite number is the exact decimal m * 10^e.                            *)
(*                                                                         *)
(* One call of validateForm is a run of the state machine: Init chooses    *)
(* the argument, and each action is one block of the function body, in     *)
(* program order.                                                          *)
(***************************************************************************)
EXTENDS Integers, Sequences, FiniteSets, TLC

VARIABLES formData, errors, pc, result

vars == <<formData, errors, pc, result>>

-----------------------------------------------------------------------------
(* Program constants.                                                      *)

NameMinLen == 2
NameMaxLen == 50
PhoneLen == 10
AgeMin == 16
AgeMax == 100
PincodeLen == 6

(* Bounds of the model.                                                    *)

MaxPad == 1
MaxEmailLen == 6
MaxAgeLen == 4
MaxSubst == 1

-----------------------------------------------------------------------------
(* JavaScript values.                                                      *)

Undefined == [t |-> "undefined"]
Null == [t |-> "null"]
Bool(b) == [t |-> "boolean", b |-> b]
Str(s) == [t |-> "string", s |-> s]
Fin(m, e) == [t |-> "number", k |-> "fin", m |-> m, e |-> e]
IntNum(n) == Fin(n, 0)
NaN == [t |-> "number", k |-> "nan"]
PosInf == [t |-> "number", k |-> "inf"]
NegInf == [t |-> "number", k |-> "-inf"]
Obj(props) == [t |-> "object", props |-> props]
Arr(items) == [t |-> "array", items |-> items]
Func == [t |-> "function"]
EmptyProps == [x \in {} |-> Undefined]

\* typeof v
TypeOf(v) ==
    CASE v.t = "null" -> "object"
      [] v.t = "array" -> "object"
      [] OTHER -> v.t

\* Array.isArray(v)
IsArray(v) == v.t = "array"

\* obj.key : the own property, or undefined when it is absent
Get(obj, key) ==
    IF obj.t = "object" /\ key \in DOMAIN obj.props THEN obj.props[key]
    ELSE Undefined

\* a ?? b
NullishCoalesce(a, b) == IF a.t \in {"undefined", "null"} THEN b ELSE a

\* Boolean(v)
ToBoolean(v) ==
    CASE v.t = "undefined" -> FALSE
      [] v.t = "null" -> FALSE
      [] v.t = "boolean" -> v.b
      [] v.t = "number" -> ~(v.k = "nan" \/ (v.k = "fin" /\ v.m = 0))
      [] v.t = "string" -> v.s # <<>>
      [] OTHER -> TRUE

-----------------------------------------------------------------------------
(* Strings.                                                                *)

\* The code unit of a character, for the comparisons ch < "0" and ch > "9".
CodeUnit(ch) ==
    CASE ch = "\t" -> 9 [] ch = "\n" -> 10 [] ch = "\f" -> 12 [] ch = "\r" -> 13
      [] ch = " " -> 32 [] ch = "+" -> 43 [] ch = "-" -> 45 [] ch = "." -> 46
      [] ch = "/" -> 47
      [] ch = "0" -> 48 [] ch = "1" -> 49 [] ch = "2" -> 50 [] ch = "3" -> 51
      [] ch = "4" -> 52 [] ch = "5" -> 53 [] ch = "6" -> 54 [] ch = "7" -> 55
      [] ch = "8" -> 56 [] ch = "9" -> 57
      [] ch = ":" -> 58 [] ch = "@" -> 64 [] ch = "A" -> 65 [] ch = "X" -> 88
      [] ch = "a" -> 97 [] ch = "b" -> 98 [] ch = "e" -> 101 [] ch = "f" -> 102
      [] ch = "o" -> 111 [] ch = "x" -> 120
      [] ch = "NBSP" -> 160 [] ch = "BOM" -> 65279

\* The characters String.prototype.trim removes (of the model's alphabet).
WhiteSpace == {" ", "\t", "\n", "\f", "\r", "NBSP", "BOM"}

RECURSIVE TrimStart(_)
TrimStart(s) ==
    IF s # <<>> /\ Head(s) \in WhiteSpace THEN TrimStart(Tail(s)) ELSE s

RECURSIVE TrimEnd(_)
TrimEnd(s) ==
    IF s # <<>> /\ s[Len(s)] \in WhiteSpace
    THEN TrimEnd(SubSeq(s, 1, Len(s) - 1))
    ELSE s

\* s.trim()
trim(s) == TrimEnd(TrimStart(s))

\* s.indexOf(ch, from), 0-based; -1 when there is none
RECURSIVE indexOf(_, _, _)
indexOf(s, ch, from) ==
    IF from >= Len(s) THEN -1
    ELSE IF s[from + 1] = ch THEN from
    ELSE indexOf(s, ch, from + 1)

\* the search of s.lastIndexOf(ch), downwards from the 0-based index from
RECURSIVE lastIndexFrom(_, _, _)
lastIndexFrom(s, ch, from) ==
    IF from < 0 THEN -1
    ELSE IF s[from + 1] = ch THEN from
    ELSE lastIndexFrom(s, ch, from - 1)

\* s.lastIndexOf(ch)
lastIndexOf(s, ch) == lastIndexFrom(s, ch, Len(s) - 1)

\* s.startsWith(ch), ch one character
startsWith(s, ch) == Len(s) >= 1 /\ s[1] = ch

-----------------------------------------------------------------------------
(* Numbers.  Finite values are exact decimals m * 10^e; the operators      *)
(* below are exact for |m| < 10^5 and for comparisons with integers of     *)
(* magnitude at most 10^4, which covers every literal shorter than six     *)
(* characters (no IEEE rounding happens on such literals).                 *)

RECURSIVE Pow10(_)
Pow10(k) == IF k = 0 THEN 1 ELSE 10 * Pow10(k - 1)

\* The same value with no trailing zero below the decimal point.
RECURSIVE Normalize(_, _)
Normalize(m, e) ==
    IF m = 0 THEN [m |-> 0, e |-> 0]
    ELSE IF e < 0 /\ m % 10 = 0 THEN Normalize(m \div 10, e + 1)
    ELSE [m |-> m, e |-> e]

\* Number.isNaN(x)
NumberIsNaN(x) == x.t = "number" /\ x.k = "nan"

\* Number.isInteger(x)
NumberIsInteger(x) ==
    /\ x.t = "number"
    /\ x.k = "fin"
    /\ Normalize(x.m, x.e).e >= 0

\* x < n, for a number x and an integer n
LessThan(x, n) ==
    CASE x.k = "nan" -> FALSE
      [] x.k = "inf" -> FALSE
      [] x.k = "-inf" -> TRUE
      [] x.k = "fin" ->
           LET v == Normalize(x.m, x.e) IN
           IF v.e >= 0
           THEN (IF v.e > 4 THEN v.m < 0 ELSE v.m * Pow10(v.e) < n)
           ELSE IF -v.e > 6
                THEN (IF n > 0 THEN TRUE ELSE IF n < 0 THEN FALSE ELSE v.m < 0)
                ELSE v.m < n * Pow10(-v.e)

\* x > n, for a number x and an integer n
GreaterThan(x, n) ==
    CASE x.k = "nan" -> FALSE
      [] x.k = "inf" -> TRUE
      [] x.k = "-inf" -> FALSE
      [] x.k = "fin" ->
           LET v == Normalize(x.m, x.e) IN
           IF v.e >= 0
           THEN (IF v.e > 4 THEN v.m > 0 ELSE v.m * Pow10(v.e) > n)
           ELSE IF -v.e > 6
                THEN (IF n < 0 THEN TRUE ELSE IF n > 0 THEN FALSE ELSE v.m > 0)
                ELSE v.m > n * Pow10(-v.e)

\* The value of a digit character in any radix up to 16; 36 for a non-digit.
DigitValue(ch) ==
    CASE ch = "0" -> 0 [] ch = "1" -> 1 [] ch = "2" -> 2 [] ch = "3" -> 3
      [] ch = "4" -> 4 [] ch = "5" -> 5 [] ch = "6" -> 6 [] ch = "7" -> 7
      [] ch = "8" -> 8 [] ch = "9" -> 9
      [] ch \in {"a", "A"} -> 10 [] ch \in {"b", "B"} -> 11
      [] ch \in {"c", "C"} -> 12 [] ch \in {"d", "D"} -> 13
      [] ch \in {"e", "E"} -> 14 [] ch \in {"f", "F"} -> 15
      [] OTHER -> 36

\* The number of consecutive radix-r digits of s from the 1-based index i.
RECURSIVE DigitRun(_, _, _)
DigitRun(s, i, r) ==
    IF i <= Len(s) /\ DigitValue(s[i]) < r THEN 1 + DigitRun(s, i + 1, r) ELSE 0

\* The value of a sequence of radix-r digits (0 for the empty sequence).
RECURSIVE DigitsValue(_, _)
DigitsValue(ds, r) ==
    IF ds = <<>> THEN 0
    ELSE r * DigitsValue(SubSeq(ds, 1, Len(ds) - 1), r) + DigitValue(ds[Len(ds)])

\* StrNumericLiteral of a trimmed non-empty string with a radix prefix.
RadixLiteral(t) ==
    LET r == CASE t[2] \in {"x", "X"} -> 16
               [] t[2] \in {"o", "O"} -> 8
               [] t[2] \in {"b", "B"} -> 2
        ds == SubSeq(t, 3, Len(t))
    IN  IF ds # <<>> /\ DigitRun(ds, 1, r) = Len(ds)
        THEN Fin(DigitsValue(ds, r), 0)
        ELSE NaN

\* StrDecimalLiteral of a trimmed non-empty string: an optional sign, then
\* Infinity, or digits with an optional fraction and an optional exponent.
DecimalLiteral(t) ==
    LET signed == t[1] \in {"+", "-"}
        sign == IF t[1] = "-" THEN -1 ELSE 1
        u == IF signed THEN Tail(t) ELSE t
        ip == DigitRun(u, 1, 10)
        hasDot == Len(u) > ip /\ u[ip + 1] = "."
        fp == IF hasDot THEN DigitRun(u, ip + 2, 10) ELSE 0
        mEnd == ip + (IF hasDot THEN 1 + fp ELSE 0)
        hasExp == Len(u) > mEnd /\ u[mEnd + 1] \in {"e", "E"}
        eSigned == hasExp /\ Len(u) > mEnd + 1 /\ u[mEnd + 2] \in {"+", "-"}
        eSign == IF eSigned /\ u[mEnd + 2] = "-" THEN -1 ELSE 1
        eStart == mEnd + 2 + (IF eSigned THEN 1 ELSE 0)
        ep == IF hasExp THEN DigitRun(u, eStart, 10) ELSE 0
        last == IF hasExp THEN eStart + ep - 1 ELSE mEnd
        digits == SubSeq(u, 1, ip) \o SubSeq(u, ip + 2, ip + 1 + fp)
        expo == eSign * DigitsValue(SubSeq(u, eStart, eStart + ep - 1), 10)
    IN  IF u = <<"I", "n", "f", "i", "n", "i", "t", "y">>
        THEN (IF sign = 1 THEN PosInf ELSE NegInf)
        ELSE IF ip + fp >= 1 /\ (hasExp => ep >= 1) /\ last = Len(u)
        THEN Fin(sign * DigitsValue(digits, 10), expo - fp)
        ELSE NaN

\* Number(s) for a string s (StringToNumber)
StringToNumber(s) ==
    LET t == trim(s) IN
    IF t = <<>> THEN Fin(0, 0)
    ELSE IF Len(t) >= 2 /\ t[1] = "0" /\ t[2] \in {"x", "X", "o", "O", "b", "B"}
    THEN RadixLiteral(t)
    ELSE DecimalLiteral(t)

-----------------------------------------------------------------------------
(* The blocks of validateForm.                                             *)

Fields == {"name", "email", "phone", "age", "pincode", "state", "agreeTerms"}

NameMsg == "Name must be 2-50 characters"
EmailMsg == "Invalid email format"
PhoneMsg == "Invalid Indian phone number"
AgeMsg == "Age must be an integer between 16 and 100"
PincodeMsg == "Invalid Indian pincode"
StateMsg == "State is required"
AgreeTermsMsg == "Must agree to terms"
FormMsg == "Invalid form data"

NoErrors == [x \in {} |-> ""]

\* errors.key = msg
SetError(errs, key, msg) ==
    [x \in DOMAIN errs \cup {key} |-> IF x = key THEN msg ELSE errs[x]]

\* Object.keys(errs)
ObjectKeys(errs) == DOMAIN errs

\* A variant of isInvalidFormData that forgets Array.isArray.
isInvalidFormDataNoArray(fd) ==
    TypeOf(fd) # "object" \/ fd = Null

\* The condition of the guard on formData.
isInvalidFormData(fd) ==
    TypeOf(fd) # "object" \/ fd = Null \/ IsArray(fd)

\* The value returned by the guard on formData.
InvalidFormResult ==
    [isValid |-> FALSE, errors |-> SetError(NoErrors, "form", FormMsg)]

\* A variant of nameInvalid that measures the untrimmed name.
nameInvalidUntrimmed(name) ==
    \/ TypeOf(name) # "string"
    \/ Len(name.s) < NameMinLen
    \/ Len(name.s) > NameMaxLen

\* The condition under which errors.name is set.
nameInvalid(name) ==
    \/ TypeOf(name) # "string"
    \/ Len(trim(name.s)) < NameMinLen
    \/ Len(trim(name.s)) > NameMaxLen

\* A variant of emailInvalid that accepts a "." anywhere in the string.
emailInvalidAnyDot(email) ==
    IF TypeOf(email) # "string" THEN TRUE
    ELSE LET atIndex == indexOf(email.s, "@", 0)
             lastAtIndex == lastIndexOf(email.s, "@")
         IN  IF atIndex = -1 \/ atIndex # lastAtIndex THEN TRUE
             ELSE LET dotAfterAt == indexOf(email.s, ".", 0) # -1
                  IN  ~dotAfterAt

\* The final value of emailInvalid.
emailInvalid(email) ==
    IF TypeOf(email) # "string" THEN TRUE
    ELSE LET atIndex == indexOf(email.s, "@", 0)
             lastAtIndex == lastIndexOf(email.s, "@")
         IN  IF atIndex = -1 \/ atIndex # lastAtIndex THEN TRUE
             ELSE LET dotAfterAt == indexOf(email.s, ".", atIndex + 1) # -1
                  IN  ~dotAfterAt

\* A variant of phoneLoop that stops one character early.
RECURSIVE phoneLoopSkipsLast(_, _)
phoneLoopSkipsLast(phone, i) ==
    IF ~(i < Len(phone) - 1) THEN FALSE
    ELSE LET ch == phone[i + 1] IN
         IF CodeUnit(ch) < CodeUnit("0") \/ CodeUnit(ch) > CodeUnit("9")
         THEN TRUE
         ELSE phoneLoopSkipsLast(phone, i + 1)

\* The digit loop over phone from index i: TRUE when it sets errors.phone.
RECURSIVE phoneLoop(_, _)
phoneLoop(phone, i) ==
    IF ~(i < Len(phone)) THEN FALSE
    ELSE LET ch == phone[i + 1] IN
         IF CodeUnit(ch) < CodeUnit("0") \/ CodeUnit(ch) > CodeUnit("9")
         THEN TRUE
         ELSE phoneLoop(phone, i + 1)

\* The condition under which errors.phone is set.
phoneInvalid(phone) ==
    IF TypeOf(phone) # "string" \/ Len(phone.s) # PhoneLen THEN TRUE
    ELSE IF phone.s[1] \notin {"6", "7", "8", "9"} THEN TRUE
    ELSE phoneLoop(phone.s, 0)

\* A variant of ageInvalid whose lower limit is exclusive.
ageInvalidExclusive(age) ==
    IF TypeOf(age) = "string"
    THEN IF trim(age.s) = <<>> THEN TRUE
         ELSE LET parsed == StringToNumber(age.s) IN
              \/ NumberIsNaN(parsed)
              \/ ~NumberIsInteger(parsed)
              \/ LessThan(parsed, AgeMin + 1)
              \/ GreaterThan(parsed, AgeMax)
    ELSE IF TypeOf(age) = "number"
    THEN \/ ~NumberIsInteger(age)
         \/ LessThan(age, AgeMin + 1)
         \/ GreaterThan(age, AgeMax)
    ELSE TRUE

\* The condition under which errors.age is set.
ageInvalid(age) ==
    IF TypeOf(age) = "string"
    THEN IF trim(age.s) = <<>> THEN TRUE
         ELSE LET parsed == StringToNumber(age.s) IN
              \/ NumberIsNaN(parsed)
              \/ ~NumberIsInteger(parsed)
              \/ LessThan(parsed, AgeMin)
              \/ GreaterThan(parsed, AgeMax)
    ELSE IF TypeOf(age) = "number"
    THEN ~NumberIsInteger(age) \/ LessThan(age, AgeMin) \/ GreaterThan(age, AgeMax)
    ELSE TRUE

\* The digit loop over pincode from index i: TRUE when it sets errors.pincode.
RECURSIVE pincodeLoop(_, _)
pincodeLoop(pincode, i) ==
    IF ~(i < Len(pincode)) THEN FALSE
    ELSE LET ch == pincode[i + 1] IN
         IF CodeUnit(ch) < CodeUnit("0") \/ CodeUnit(ch) > CodeUnit("9")
         THEN TRUE
         ELSE pincodeLoop(pincode, i + 1)

\* A variant of pincodeInvalid that forgets startsWith("0").
pincodeInvalidLeadingZero(pincode) ==
    IF TypeOf(pincode) # "string" \/ Len(pincode.s) # PincodeLen
    THEN TRUE
    ELSE pincodeLoop(pincode.s, 0)

\* The condition under which errors.pincode is set.
pincodeInvalid(pincode) ==
    IF \/ TypeOf(pincode) # "string"
       \/ Len(pincode.s) # PincodeLen
       \/ startsWith(pincode.s, "0")
    THEN TRUE
    ELSE pincodeLoop(pincode.s, 0)

\* A variant of stateInvalid that does not trim the state.
stateInvalidUntrimmed(fd) ==
    LET state == NullishCoalesce(Get(fd, "state"), Str(<<>>)) IN
    TypeOf(state) # "string" \/ state.s = <<>>

\* The condition under which errors.state is set.
stateInvalid(fd) ==
    LET state == NullishCoalesce(Get(fd, "state"), Str(<<>>)) IN
    TypeOf(state) # "string" \/ trim(state.s) = <<>>

\* The condition under which errors.agreeTerms is set.
agreeTermsInvalid(fd) == ~ToBoolean(Get(fd, "agreeTerms"))

\* A variant of ReturnValue that reads errors.length, which no object has.
ReturnValueByLength(errs) == [isValid |-> FALSE, errors |-> errs]

\* The value of the final return statement.
ReturnValue(errs) ==
    [isValid |-> Cardinality(ObjectKeys(errs)) = 0, errors |-> errs]

NoResult == [t |-> "none"]

PreCheck ==
    /\ pc = "start"
    /\ IF isInvalidFormData(formData)
       THEN result' = InvalidFormResult /\ pc' = "done"
       ELSE result' = result /\ pc' = "name"
    /\ UNCHANGED <<formData, errors>>

ValidateName ==
    /\ pc = "name"
    /\ errors' = IF nameInvalid(Get(formData, "name"))
                 THEN SetError(errors, "name", NameMsg) ELSE errors
    /\ pc' = "email"
    /\ UNCHANGED <<formData, result>>

\* A variant of ValidateEmail that is skipped once an error is recorded.
ValidateEmailShortCircuit ==
    /\ pc = "email"
    /\ errors' = IF errors = NoErrors /\ emailInvalid(Get(formData, "email"))
                 THEN SetError(errors, "email", EmailMsg) ELSE errors
    /\ pc' = "phone"
    /\ UNCHANGED <<formData, result>>

ValidateEmail ==
    /\ pc = "email"
    /\ errors' = IF emailInvalid(Get(formData, "email"))
                 THEN SetError(errors, "email", EmailMsg) ELSE errors
    /\ pc' = "phone"
    /\ UNCHANGED <<formData, result>>

ValidatePhone ==
    /\ pc = "phone"
    /\ errors' = IF phoneInvalid(Get(formData, "phone"))
                 THEN SetError(errors, "phone", PhoneMsg) ELSE errors
    /\ pc' = "age"
    /\ UNCHANGED <<formData, result>>

ValidateAge ==
    /\ pc = "age"
    /\ errors' = IF ageInvalid(Get(formData, "age"))
                 THEN SetError(errors, "age", AgeMsg) ELSE errors
    /\ pc' = "pincode"
    /\ UNCHANGED <<formData, result>>

ValidatePincode ==
    /\ pc = "pincode"
    /\ errors' = IF pincodeInvalid(Get(formData, "pincode"))
                 THEN SetError(errors, "pincode", PincodeMsg) ELSE errors
    /\ pc' = "state"
    /\ UNCHANGED <<formData, result>>

ValidateState ==
    /\ pc = "state"
    /\ errors' = IF stateInvalid(formData)
                 THEN SetError(errors, "state", StateMsg) ELSE errors
    /\ pc' = "agreeTerms"
    /\ UNCHANGED <<formData, result>>

ValidateAgreeTerms ==
    /\ pc = "agreeTerms"
    /\ errors' = IF agreeTermsInvalid(formData)
                 THEN SetError(errors, "agreeTerms", AgreeTermsMsg) ELSE errors
    /\ pc' = "return"
    /\ UNCHANGED <<formData, result>>

Return ==
    /\ pc = "return"
    /\ result' = ReturnValue(errors)
    /\ pc' = "done"
    /\ UNCHANGED <<formData, errors>>

-----------------------------------------------------------------------------
(* The arguments validateForm is called with.                              *)

\* All the strings over alphabet A of length at most n.
SeqsUpTo(A, n) == UNION {[1..k -> A] : k \in 0..n}

\* The strings of S with at most k characters replaced by characters of A.
RECURSIVE Substituted(_, _, _)
Substituted(S, A, k) ==
    IF k = 0 THEN S
    ELSE Substituted(
             S \cup UNION {{[s EXCEPT ![i] = c] : i \in 1..Len(s), c \in A}
                               : s \in S},
             A, k - 1)

DigitChar(d) ==
    CASE d = 0 -> "0" [] d = 1 -> "1" [] d = 2 -> "2" [] d = 3 -> "3"
      [] d = 4 -> "4" [] d = 5 -> "5" [] d = 6 -> "6" [] d = 7 -> "7"
      [] d = 8 -> "8" [] d = 9 -> "9"

\* Values that are neither a string nor a number.
OtherValues ==
    {Undefined, Null, Bool(TRUE), Bool(FALSE), Obj(EmptyProps), Arr(<<>>), Func}

NonStrings == OtherValues \cup {IntNum(0), IntNum(22), NaN}

\* n characters, with a space inside when there is room for one
NameCore(n) == [i \in 1..n |-> IF n >= 3 /\ i = 2 THEN " " ELSE "a"]

NameStrings ==
    {l \o NameCore(n) \o r : <<l, n, r>> \in
        SeqsUpTo({" ", "NBSP"}, MaxPad) \X (0..(NameMaxLen + 2))
            \X SeqsUpTo({" ", "NBSP"}, MaxPad)}

NameValues == {Str(s) : s \in NameStrings} \cup NonStrings

EmailValues ==
    {Str(s) : s \in SeqsUpTo({"a", "@", "."}, MaxEmailLen)} \cup NonStrings

\* 9876543210 repeated, cut to n characters
PhoneBase(n) == [i \in 1..n |-> DigitChar((10 * n - i) % 10)]

PhoneStrings ==
    Substituted({PhoneBase(n) : n \in {0, PhoneLen - 1, PhoneLen, PhoneLen + 1}},
                {"5", "6", "0", "A", "/", ":", " "}, MaxSubst)
    \cup {<<"1", "2", "3", "4", "5">>}

PhoneValues ==
    {Str(s) : s \in PhoneStrings} \cup NonStrings \cup {Fin(98765, 5)}

AgeStrings ==
    SeqsUpTo({"0", "1", "2", "6", " ", ".", "e", "-", "x"}, MaxAgeLen)

AgeNumbers ==
    {IntNum(n) : n \in (AgeMin - 2)..(AgeMax + 2)}
    \cup {IntNum(0), IntNum(-AgeMin), Fin(165, -1), Fin(160, -1), Fin(1, 21),
          Fin(1, -7), NaN, PosInf, NegInf}

AgeValues == {Str(s) : s \in AgeStrings} \cup AgeNumbers \cup OtherValues

\* 4 and then zeros, n characters
PincodeBase(n) == [i \in 1..n |-> IF i = 1 THEN "4" ELSE "0"]

PincodeStrings ==
    Substituted(
        {PincodeBase(n) : n \in {0, PincodeLen - 1, PincodeLen, PincodeLen + 1}},
        {"0", "1", "A", "/", ":", " "}, MaxSubst)
    \cup {<<"1", "2", "3", "4", "5">>, <<"0", "1", "2", "3">>,
          <<"4", "0", "0", "0", "0", "1">>}

PincodeValues ==
    {Str(s) : s \in PincodeStrings} \cup NonStrings \cup {IntNum(400001)}

StateValues ==
    {Str(s) : s \in {<<>>, <<" ">>, <<"\t", "NBSP">>, <<"M", "H">>,
                     <<" ", "M", "H", " ">>}}
    \cup NonStrings

AgreeTermsValues ==
    {Str(s) : s \in {<<>>, <<" ">>, <<"y", "e", "s">>, <<"0">>}}
    \cup NonStrings \cup {IntNum(1), Fin(0, -1), PosInf}

Values(f) ==
    CASE f = "name" -> NameValues
      [] f = "email" -> EmailValues
      [] f = "phone" -> PhoneValues
      [] f = "age" -> AgeValues
      [] f = "pincode" -> PincodeValues
      [] f = "state" -> StateValues
      [] f = "agreeTerms" -> AgreeTermsValues

\* The marker of a property that the record does not have.
Absent == [t |-> "absent"]

\* A form that passes every rule.
ValidChoice ==
    [name |-> Str(<<"R", "a", "h", "u", "l">>),
     email |-> Str(<<"a", "@", "a", ".", "a">>),
     phone |-> Str(PhoneBase(PhoneLen)),
     age |-> IntNum(20),
     pincode |-> Str(<<"4", "0", "0", "0", "0", "1">>),
     state |-> Str(<<"M", "H">>),
     agreeTerms |-> Bool(TRUE)]

\* A form that fails every rule.
InvalidChoice ==
    [name |-> Str(<<>>),
     email |-> Str(<<"b", "a", "d", "-", "e", "m", "a", "i", "l">>),
     phone |-> Str(<<"1", "2", "3", "4", "5">>),
     age |-> IntNum(10),
     pincode |-> Str(<<"0", "1", "2", "3">>),
     state |-> Null,
     agreeTerms |-> Bool(FALSE)]

\* The record with the properties of c that are not Absent.
MkForm(c) == Obj([k \in {f \in Fields : c[f] # Absent} |-> c[k]])

\* Every combination of a valid, an invalid and an absent value per field.
MixedForms ==
    {MkForm([f \in Fields |-> CASE c[f] = "valid" -> ValidChoice[f]
                                [] c[f] = "invalid" -> InvalidChoice[f]
                                [] c[f] = "absent" -> Absent])
        : c \in [Fields -> {"valid", "invalid", "absent"}]}

\* The form of base with field f set to v, or removed when v is Absent.
FocusForm(base, f, v) == MkForm([base EXCEPT ![f] = v])

\* Arguments that are no record.
NonRecords ==
    {Undefined, Null, Bool(TRUE), Bool(FALSE), IntNum(0), IntNum(42), NaN,
     Str(<<>>), Str(<<"a">>), Func, Arr(<<>>), Arr(<<IntNum(1)>>),
     Arr(<<MkForm(ValidChoice)>>)}

\* The argument is a mixed form, or one field over all its values in a
\* form that is otherwise valid or otherwise invalid, or no record, or {}.
Init ==
    /\ \/ formData \in MixedForms
       \/ \E base \in {ValidChoice, InvalidChoice}, f \in Fields :
              \E v \in Values(f) \cup {Absent} :
                  formData = FocusForm(base, f, v)
       \/ formData \in NonRecords \cup {Obj(EmptyProps)}
    /\ errors = NoErrors
    /\ pc = "start"
    /\ result = NoResult

Next ==
    \/ PreCheck
    \/ ValidateName
    \/ ValidateEmail
    \/ ValidatePhone
    \/ ValidateAge
    \/ ValidatePincode
    \/ ValidateState
    \/ ValidateAgreeTerms
    \/ Return

Spec == Init /\ [][Next]_vars

-----------------------------------------------------------------------------
(* The vocabulary of the properties: what the specification says of a      *)
(* call, stated over the argument and the returned value.                  *)

Done == pc = "done"

\* The argument is a record: a non-null object that is no array.
IsRecord(v) == v.t = "object"

\* The argument is a primitive, null, undefined or an array.
IsNoObject(v) ==
    v.t \in {"undefined", "null", "boolean", "number", "string", "array"}

Has(f) == f \in DOMAIN formData.props
Field(f) == formData.props[f]
IsString(f) == Has(f) /\ Field(f).t = "string"
IsNumber(f) == Has(f) /\ Field(f).t = "number"

HasError(f) == f \in DOMAIN result.errors

Message(f) ==
    CASE f = "name" -> "Name must be 2-50 characters"
      [] f = "email" -> "Invalid email format"
      [] f = "phone" -> "Invalid Indian phone number"
      [] f = "age" -> "Age must be an integer between 16 and 100"
      [] f = "pincode" -> "Invalid Indian pincode"
      [] f = "state" -> "State is required"
      [] f = "agreeTerms" -> "Must agree to terms"

\* f has no error entry exactly when ok, and an entry is f's fixed message
Decides(f, ok) ==
    /\ ~HasError(f) <=> ok
    /\ HasError(f) => result.errors[f] = Message(f)

IsBlank(s) == \A i \in 1..Len(s) : s[i] \in WhiteSpace

\* The length of s without its leading and trailing whitespace.
TrimmedLen(s) ==
    LET inked == {i \in 1..Len(s) : s[i] \notin WhiteSpace} IN
    IF inked = {} THEN 0
    ELSE (CHOOSE i \in inked : \A j \in inked : j <= i)
         - (CHOOSE i \in inked : \A j \in inked : i <= j) + 1

AsciiDigits == {"0", "1", "2", "3", "4", "5", "6", "7", "8", "9"}

AllDigits(s) == \A i \in 1..Len(s) : s[i] \in AsciiDigits

\* The number x is finite and equal to the integer n.
EqualsInteger(x, n) ==
    /\ x.k = "fin"
    /\ IF x.e >= 0
       THEN IF x.m = 0 THEN n = 0 ELSE x.e <= 4 /\ x.m * Pow10(x.e) = n
       ELSE IF -x.e > 6 THEN x.m = 0 /\ n = 0 ELSE x.m = n * Pow10(-x.e)

\* The number x is a finite integer of lo..hi.
IsIntegerIn(x, lo, hi) == \E n \in lo..hi : EqualsInteger(x, n)

NameOK ==
    /\ IsString("name")
    /\ TrimmedLen(Field("name").s) >= 2
    /\ TrimmedLen(Field("name").s) <= 50

EmailOK ==
    /\ IsString("email")
    /\ LET s == Field("email").s
           ats == {i \in 1..Len(s) : s[i] = "@"}
       IN  /\ Cardinality(ats) = 1
           /\ \E i \in ats : \E j \in 1..Len(s) : j > i /\ s[j] = "."

PhoneOK ==
    /\ IsString("phone")
    /\ LET s == Field("phone").s
       IN  Len(s) = 10 /\ AllDigits(s) /\ s[1] \in {"6", "7", "8", "9"}

AgeOK ==
    \/ IsNumber("age") /\ IsIntegerIn(Field("age"), 16, 100)
    \/ /\ IsString("age")
       /\ ~IsBlank(Field("age").s)
       /\ IsIntegerIn(StringToNumber(Field("age").s), 16, 100)

PincodeOK ==
    /\ IsString("pincode")
    /\ LET s == Field("pincode").s
       IN  Len(s) = 6 /\ AllDigits(s) /\ s[1] # "0"

\* state when it is present and not null, the empty string otherwise
EffectiveState ==
    IF Has("state") /\ Field("state").t \notin {"null", "undefined"}
    THEN Field("state")
    ELSE Str(<<>>)

StateOK == EffectiveState.t = "string" /\ ~IsBlank(EffectiveState.s)

\* 0, "", null, undefined, NaN, false
Falsy(v) ==
    \/ v.t \in {"null", "undefined"}
    \/ v = Bool(FALSE)
    \/ v = Str(<<>>)
    \/ v.t = "number" /\ (v.k = "nan" \/ (v.k = "fin" /\ v.m = 0))

AgreeTermsOK == Has("agreeTerms") /\ ~Falsy(Field("agreeTerms"))

RuleHolds(f) ==
    CASE f = "name" -> NameOK
      [] f = "email" -> EmailOK
      [] f = "phone" -> PhoneOK
      [] f = "age" -> AgeOK
      [] f = "pincode" -> PincodeOK
      [] f = "state" -> StateOK
      [] f = "agreeTerms" -> AgreeTermsOK

-----------------------------------------------------------------------------
(* The properties.                                                         *)

\* C1: whatever the argument, the returned isValid is true if and only if
\* the returned errors mapping has no key.
C1_IsValidIffNoErrors ==
    Done => (result.isValid <=> Cardinality(DOMAIN result.errors) = 0)

\* C1 happens: a record was validated field by field and came back valid.
C1_Witness ==
    /\ Done
    /\ IsRecord(formData)
    /\ result.isValid
    /\ DOMAIN result.errors = {}

\* C2: an argument that is a primitive, null, undefined or an array yields
\* exactly {isValid: false, errors: {form: "Invalid form data"}}, with no
\* field key, and no field check has run.
C2_NonRecordIsInvalidForm ==
    Done /\ IsNoObject(formData) =>
        /\ result = [isValid |-> FALSE,
                     errors |-> [k \in {"form"} |-> "Invalid form data"]]
        /\ DOMAIN result.errors \cap Fields = {}
        /\ errors = NoErrors

\* C2 happens: an array holding a valid form was rejected as a whole.
C2_Witness ==
    /\ Done
    /\ formData.t = "array"
    /\ Len(formData.items) = 1
    /\ DOMAIN result.errors = {"form"}

\* C3: for a record, the keys of errors are exactly the fields whose own
\* rule fails (a rule reads its own field only), each key maps to that
\* field's fixed message, and when all seven rules fail all seven keys are
\* present.
C3_FieldsIndependent ==
    Done /\ IsRecord(formData) =>
        /\ DOMAIN result.errors = {f \in Fields : ~RuleHolds(f)}
        /\ \A f \in DOMAIN result.errors : result.errors[f] = Message(f)
        /\ (\A f \in Fields : ~RuleHolds(f)) => DOMAIN result.errors = Fields

\* C3 happens: the first, a middle and the last field fail and the four
\* others pass.
C3_Witness ==
    /\ Done
    /\ IsRecord(formData)
    /\ DOMAIN result.errors = {"name", "pincode", "agreeTerms"}

ParseInt(s) ==
    LET t == TrimStart(s)
        signed == t # <<>> /\ t[1] \in {"+", "-"}
        sign == IF signed /\ t[1] = "-" THEN -1 ELSE 1
        u == IF signed THEN Tail(t) ELSE t
        hex == Len(u) >= 2 /\ u[1] = "0" /\ u[2] \in {"x", "X"}
        r == IF hex THEN 16 ELSE 10
        z == IF hex THEN SubSeq(u, 3, Len(u)) ELSE u
        n == DigitRun(z, 1, r)
    IN  IF n = 0 THEN NaN ELSE Fin(sign * DigitsValue(SubSeq(z, 1, n), r), 0)

\* C5: a string age has no error exactly when parseInt of it is not NaN
\* and lies in 16..100.
C5_StringAgeByParseInt ==
    Done /\ IsRecord(formData) /\ IsString("age") =>
        (~HasError("age") <=>
            LET parsed == ParseInt(Field("age").s) IN
            parsed.k # "nan" /\ parsed.m >= 16 /\ parsed.m <= 100)

\* C6: for a record, email has no error exactly when it is a string with
\* exactly one "@" and at least one "." at a greater index.
C6_EmailRule == Done /\ IsRecord(formData) => Decides("email", EmailOK)

\* C6 happens: an email with a "." on both sides of its one "@" passed.
C6_Witness ==
    /\ Done
    /\ IsRecord(formData)
    /\ IsString("email")
    /\ Field("email").s = <<".", "@", "a", ".">>
    /\ ~HasError("email")

\* C7: for a record, phone has no error exactly when it is a string of 10
\* characters, all ASCII digits, the first one of 6, 7, 8, 9.
C7_PhoneRule == Done /\ IsRecord(formData) => Decides("phone", PhoneOK)

\* C7 happens: a phone of ten characters starting with 9 was rejected for
\* its last character.
C7_Witness ==
    /\ Done
    /\ IsRecord(formData)
    /\ IsString("phone")
    /\ Len(Field("phone").s) = 10
    /\ Field("phone").s[1] = "9"
    /\ Field("phone").s[10] = "A"
    /\ HasError("phone")

\* C8: for a record, pincode has no error exactly when it is a string of 6
\* characters, all ASCII digits, the first one not "0"; so "000000" and
\* "12345" fail and "100000" passes.
C8_PincodeRule ==
    Done /\ IsRecord(formData) =>
        /\ Decides("pincode", PincodeOK)
        /\ Has("pincode")
              /\ Field("pincode") \in {Str(<<"0", "0", "0", "0", "0", "0">>),
                                       Str(<<"1", "2", "3", "4", "5">>)}
              => HasError("pincode")
        /\ Has("pincode")
              /\ Field("pincode") = Str(<<"1", "0", "0", "0", "0", "0">>)
              => ~HasError("pincode")

\* C8 happens: the pincode "100000" passed.
C8_Witness ==
    /\ Done
    /\ IsRecord(formData)
    /\ Has("pincode")
    /\ Field("pincode") = Str(<<"1", "0", "0", "0", "0", "0">>)
    /\ ~HasError("pincode")

\* C9: for a record, name has no error exactly when it is a string whose
\* length without leading and trailing whitespace is in 2..50.
C9_NameRule == Done /\ IsRecord(formData) => Decides("name", NameOK)

\* C9 happens: a name of 50 characters between whitespace passed.
C9_Witness ==
    /\ Done
    /\ IsRecord(formData)
    /\ IsString("name")
    /\ Len(Field("name").s) > 50
    /\ TrimmedLen(Field("name").s) = 50
    /\ ~HasError("name")

\* C10: for a record, state has no error exactly when the effective state
\* (the value, or "" when it is null or absent) is a string that is not
\* blank; null, absent, blank strings and non-strings fail, "MH" passes.
C10_StateRule ==
    Done /\ IsRecord(formData) =>
        /\ Decides("state", StateOK)
        /\ ~Has("state") => HasError("state")
        /\ Has("state")
              /\ Field("state") \in {Null, Str(<<>>), Str(<<" ">>), IntNum(22),
                                     Bool(TRUE), Obj(EmptyProps)}
              => HasError("state")
        /\ Has("state") /\ Field("state") = Str(<<"M", "H">>)
              => ~HasError("state")

\* C10 happens: a form whose only flaw is a null state was rejected for it.
C10_Witness ==
    /\ Done
    /\ IsRecord(formData)
    /\ Has("state")
    /\ Field("state") = Null
    /\ DOMAIN result.errors = {"state"}

=============================================================================
